---- MODULE Spec2Model ----
(***************************************************************************)
(* Model of downsample.py: the genotype transformation pipeline            *)
(* (allele decomposition, remove_random_loci, pseudo_haploidize_genotypes, *)
(* calculate_stats_dict / display_stats, write_with_headers and main).     *)
(*                                                                         *)
(* Strings are sequences of one-character strings ("AG" is <<"A","G">>).   *)
(* A polars null is the sentinel Null; comparisons with a null are false   *)
(* inside pl.when, slices and concatenations of a null are null.           *)
(* Python floats are IEEE-754 binary64 values, modelled bit for bit: the   *)
(* 53-bit significand is kept as three limbs hi (17 bits), mid (18 bits)   *)
(* and lo (18 bits), so that every intermediate product fits an integer of *)
(* the model checker; the value of a float f is                            *)
(*   (f.hi * 2^36 + f.mid * 2^18 + f.lo) * 2^(f.exp - 52).                 *)
(***************************************************************************)
EXTENDS Integers, Sequences, FiniteSets, TLC

(***************************************************************************)
(* Bounds of the model.                                                    *)
(***************************************************************************)
MaxLoci == 2      \* rows of a dataset in the exhaustive specifications
MaxHeaders == 2   \* lines of a header block
MaxBulk == 50     \* rows of the largest dataset of SpecBulk

(***************************************************************************)
(* IEEE-754 binary64 arithmetic on non-negative values (operands below     *)
(* 2^12, which covers every percentage and every row count of the model)   *)
(***************************************************************************)
RECURSIVE Pow2(_)
Pow2(n) == IF n = 0 THEN 1 ELSE 2 * Pow2(n - 1)

Limb == Pow2(18)
HiMin == Pow2(16)

FZero == [zero |-> TRUE, hi |-> 0, mid |-> 0, lo |-> 0, exp |-> 0]

\* number of bits of n
RECURSIVE BitLen(_)
BitLen(n) == IF n = 0 THEN 0 ELSE 1 + BitLen(n \div 2)

\* smallest s with a * 2^s >= b
RECURSIVE ShiftUp(_, _)
ShiftUp(a, b) == IF a >= b THEN 0 ELSE 1 + ShiftUp(2 * a, b)

\* round-half-to-even of a significand, given whether the discarded part is
\* more than, or exactly, half a unit in the last place
RoundHalfEven(hi, mid, lo, exp, moreThanHalf, exactlyHalf) ==
    IF moreThanHalf \/ (exactlyHalf /\ lo % 2 = 1)
    THEN LET lo1 == (lo + 1) % Limb
             mid1 == IF lo + 1 = Limb THEN (mid + 1) % Limb ELSE mid
             hi1 == IF lo + 1 = Limb /\ mid + 1 = Limb THEN hi + 1 ELSE hi
         IN IF hi1 = 2 * HiMin
            THEN [zero |-> FALSE, hi |-> HiMin, mid |-> 0, lo |-> 0,
                  exp |-> exp + 1]
            ELSE [zero |-> FALSE, hi |-> hi1, mid |-> mid1, lo |-> lo1,
                  exp |-> exp]
    ELSE [zero |-> FALSE, hi |-> hi, mid |-> mid, lo |-> lo, exp |-> exp]

\* a / b for integers a >= 0, b > 0 (true division, correctly rounded):
\* long division of the scaled numerator, 53 quotient bits
FDiv(a, b) ==
    IF a = 0 THEN FZero
    ELSE LET up == ShiftUp(a, b)
             down == IF a >= b THEN ShiftUp(b, a + 1) - 1 ELSE 0
             num == a * Pow2(up)
             den == b * Pow2(down)
             r0 == num - den
             q1 == (r0 * HiMin) \div den
             r1 == (r0 * HiMin) % den
             q2 == (r1 * Limb) \div den
             r2 == (r1 * Limb) % den
             q3 == (r2 * Limb) \div den
             r3 == (r2 * Limb) % den
         IN RoundHalfEven(HiMin + q1, q2, q3, down - up,
                          2 * r3 > den, 2 * r3 = den)

\* the exact product n * significand of f, as limbs <<hi, mid, lo>> whose
\* hi limb is no longer bounded by 17 bits
ExactMul(n, f) ==
    LET pl == n * f.lo
        pm == n * f.mid + (pl \div Limb)
        ph == n * f.hi + (pm \div Limb)
    IN <<ph, pm % Limb, pl % Limb>>

\* n * f for an integer n >= 0 and a float f (correctly rounded product)
FMul(n, f) ==
    IF n = 0 \/ f.zero THEN FZero
    ELSE LET p == ExactMul(n, f)
             extra == BitLen(p[1]) - 17
             unit == Pow2(extra)
             hi == p[1] \div unit
             mcarry == (p[1] % unit) * Limb + p[2]
             mid == mcarry \div unit
             lcarry == (mcarry % unit) * Limb + p[3]
             lo == lcarry \div unit
             dropped == lcarry % unit
         IN RoundHalfEven(hi, mid, lo, f.exp + extra,
                          2 * dropped > unit, 2 * dropped = unit)

\* int(f): truncation towards zero (values below 2^31)
FTrunc(f) ==
    IF f.zero \/ f.exp < 0 THEN 0
    ELSE IF f.exp <= 16 THEN f.hi \div Pow2(16 - f.exp)
    ELSE f.hi * Pow2(f.exp - 16) + (f.mid \div Pow2(34 - f.exp))

\* f formatted with ":.2f", as a number of hundredths: the exact binary
\* value times 100, rounded half to even (values from 2^-14 up to 2^14)
FHundredths(f) ==
    IF f.zero THEN 0
    ELSE LET p == ExactMul(100, f)
             unit == Pow2(16 - f.exp)
             whole == p[1] \div unit
             frac == p[1] % unit
             rest == p[2] # 0 \/ p[3] # 0
             more == 2 * frac > unit \/ (2 * frac = unit /\ rest)
             half == 2 * frac = unit /\ ~rest
         IN IF more \/ (half /\ whole % 2 = 1) THEN whole + 1 ELSE whole

(***************************************************************************)
(* Strings, nulls and the rows of a dataset                                *)
(***************************************************************************)
Null == <<"NULL">>            \* a polars null (no string holds this token)
Empty == <<>>                 \* ""
Dash == <<"-">>               \* "-"
Missing == <<"-", "-">>       \* "--"

\* the genotype strings of an input file: one of each shape the code tells
\* apart (one or two characters, a dash first or second, the two alleles
\* equal or different, in either order)
Genotypes ==
    {<<"A">>, <<"-">>, <<"A", "A">>, <<"A", "G">>, <<"G", "A">>,
     <<"A", "-">>, <<"-", "G">>, <<"-", "-">>}

Min(a, b) == IF a <= b THEN a ELSE b

\* pl.col(c).str.slice(offset, length)
StrSlice(s, offset, length) ==
    IF s = Null THEN Null
    ELSE SubSeq(s, offset + 1, Min(offset + length, Len(s)))

\* pl.col(a) + pl.col(b)
StrConcat(a, b) == IF a = Null \/ b = Null THEN Null ELSE a \o b

DigitChars == <<"0", "1", "2", "3", "4", "5", "6", "7", "8", "9">>

\* str(n) for an integer n >= 0
RECURSIVE IntToStr(_)
IntToStr(n) ==
    IF n < 10 THEN <<DigitChars[n + 1]>>
    ELSE Append(IntToStr(n \div 10), DigitChars[(n % 10) + 1])

\* the four columns of data row i of an input file, as read by pl.read_csv
InputRow(i, g) ==
    [rsid |-> <<"rs">> \o IntToStr(i),
     chromosome |-> IF i % 2 = 1 THEN <<"1">> ELSE <<"X">>,
     position |-> 500 * i,
     genotype |-> g]

(***************************************************************************)
(* The input file and pl.read_csv                                          *)
(***************************************************************************)
\* the fields of a line, split at the tabs
RECURSIVE SplitTabs(_)
SplitTabs(line) ==
    IF \A i \in DOMAIN line : line[i] # "\t" THEN <<line>>
    ELSE LET t == CHOOSE i \in DOMAIN line :
                     line[i] = "\t" /\ \A j \in 1 .. i - 1 : line[j] # "\t"
         IN <<SubSeq(line, 1, t - 1)>>
            \o SplitTabs(SubSeq(line, t + 1, Len(line)))

DigitValue(c) == CHOOSE v \in 0 .. 9 : DigitChars[v + 1] = c

\* the Int64 a string of decimal digits is read as
RECURSIVE StrToInt(_)
StrToInt(s) ==
    IF Len(s) = 1 THEN DigitValue(s[1])
    ELSE 10 * StrToInt(SubSeq(s, 1, Len(s) - 1)) + DigitValue(s[Len(s)])

IsNumber(s) == s # <<>> /\ \A i \in DOMAIN s : \E v \in 0 .. 9 : DigitChars[v + 1] = s[i]

\* line.startswith('#'): every comment line of the model starts with a
\* piece of text that starts with "#"
CommentStarts == {"# This is a header", "# rsid", "# "}

StartsWithHash(line) == line # <<>> /\ line[1] \in CommentStarts

\* extract_headers: the leading lines that start with "#"
RECURSIVE extract_headers(_)
extract_headers(lines) ==
    IF lines = <<>> \/ ~StartsWithHash(Head(lines)) THEN <<>>
    ELSE <<Head(lines)>> \o extract_headers(Tail(lines))

\* [line for line in f if not line.startswith('#')]
DataLinesOf(lines) == SelectSeq(lines, LAMBDA line : ~StartsWithHash(line))

\* the fields of a data line without its line end
FieldsOf(line) == SplitTabs(SubSeq(line, 1, Len(line) - 1))

\* pl.read_csv raises ComputeError: a position that is no Int64
RaisesComputeError(lines) ==
    \E i \in DOMAIN lines :
        Len(FieldsOf(lines[i])) >= 3 /\ ~IsNumber(FieldsOf(lines[i])[3])

\* pl.read_csv with the four column names and the schema of main
ReadCsv(lines) ==
    [i \in DOMAIN lines |->
        LET f == FieldsOf(lines[i])
        IN [rsid |-> f[1], chromosome |-> f[2], position |-> StrToInt(f[3]),
            genotype |-> f[4]]]

(***************************************************************************)
(* Allele decomposition (main)                                             *)
(***************************************************************************)
\* first with_columns: ref and alt from the genotype
ExtractAlleles(row) ==
    [rsid |-> row.rsid, chromosome |-> row.chromosome,
     position |-> row.position, genotype |-> row.genotype,
     ref |-> IF row.genotype = Missing THEN Null
             ELSE StrSlice(row.genotype, 0, 1),
     alt |-> IF row.genotype = Missing THEN Null
             ELSE IF StrSlice(row.genotype, 1, 1) = Empty THEN Null
             ELSE IF StrSlice(row.genotype, 1, 1) = Dash THEN Null
             ELSE StrSlice(row.genotype, 1, 1)]

\* the decomposition without its second pass
NullDashRefSkipped(row) == row

\* second with_columns: a ref of "-" becomes null
NullDashRef(row) ==
    [row EXCEPT !.ref = IF row.ref = Dash THEN Null ELSE row.ref]

Decompose(rows) == [i \in DOMAIN rows |-> NullDashRef(ExtractAlleles(rows[i]))]

(***************************************************************************)
(* remove_random_loci                                                      *)
(***************************************************************************)
\* the range check without its upper end
InvalidPercentageNoUpper(pct) == pct < 0

\* not 0 <= percentage_to_remove <= 100
InvalidPercentage(pct) == ~(0 <= pct /\ pct <= 100)

\* int(len(df) * (percentage_to_remove / 100))
num_rows_to_modify(n, pct) == FTrunc(FMul(n, FDiv(pct, 100)))

\* the results random.sample(range(n), k) can return, as sets of indices
RandomSample(n, k) == {s \in SUBSET (0 .. n - 1) : Cardinality(s) = k}

\* a filter in place of the mask: the selected rows are dropped
RECURSIVE remove_random_loci_dropping_rows(_, _)
remove_random_loci_dropping_rows(d, rows_to_modify) ==
    IF d = <<>> THEN <<>>
    ELSE LET front == remove_random_loci_dropping_rows(SubSeq(d, 1, Len(d) - 1), rows_to_modify)
         IN IF (Len(d) - 1) \in rows_to_modify THEN front
            ELSE Append(front, d[Len(d)])

\* the mask applied to genotype and ref only
remove_random_loci_keeping_alt(d, rows_to_modify) ==
    [i \in DOMAIN d |->
        IF (i - 1) \in rows_to_modify
        THEN [d[i] EXCEPT !.genotype = Missing, !.ref = Null]
        ELSE d[i]]

\* the mask applied to the genotype only: ref and alt carried forward
remove_random_loci_genotype_only(d, rows_to_modify) ==
    [i \in DOMAIN d |->
        IF (i - 1) \in rows_to_modify
        THEN [d[i] EXCEPT !.genotype = Missing]
        ELSE d[i]]

\* the with_columns under the mask of rows_to_modify (0-based indices)
remove_random_loci(d, rows_to_modify) ==
    [i \in DOMAIN d |->
        IF (i - 1) \in rows_to_modify
        THEN [d[i] EXCEPT !.genotype = Missing, !.ref = Null, !.alt = Null]
        ELSE d[i]]

(***************************************************************************)
(* pseudo_haploidize_genotypes                                             *)
(***************************************************************************)
\* the lists [random.randint(0, 1) for _ in range(n_rows)] can be
RandomChoices(n) == [1 .. n -> {0, 1}]

\* the two choices exchanged
ChooseAlleleSwapped(row, choice) ==
    [row EXCEPT !.genotype =
        IF row.genotype = Missing THEN Missing
        ELSE IF choice = 0 THEN StrConcat(row.alt, row.alt)
        ELSE IF choice = 1 THEN StrConcat(row.ref, row.ref)
        ELSE row.genotype]

\* first with_columns: refref or altalt by the row's random choice
ChooseAllele(row, choice) ==
    [row EXCEPT !.genotype =
        IF row.genotype = Missing THEN Missing
        ELSE IF choice = 0 THEN StrConcat(row.ref, row.ref)
        ELSE IF choice = 1 THEN StrConcat(row.alt, row.alt)
        ELSE row.genotype]

\* second with_columns: a null ref or alt makes the genotype "--"
NullToMissing(row) ==
    [row EXCEPT !.genotype =
        IF row.ref = Null \/ row.alt = Null THEN Missing ELSE row.genotype]

\* ref and alt sliced from the genotype without the "--" case
RealignAllelesNoMissingCase(row) ==
    [row EXCEPT !.ref = StrSlice(row.genotype, 0, 1),
                !.alt = StrSlice(row.genotype, 1, 1)]

\* ref and alt carried forward instead of recomputed
RealignAllelesStale(row) == row

\* third with_columns: ref and alt from the new genotype
RealignAlleles(row) ==
    [row EXCEPT
        !.ref = IF row.genotype = Missing THEN Null
                ELSE StrSlice(row.genotype, 0, 1),
        !.alt = IF row.genotype = Missing THEN Null
                ELSE StrSlice(row.genotype, 1, 1)]

\* the number of rows among the first i whose genotype is not "--"
RECURSIVE NonMissingUpTo(_, _)
NonMissingUpTo(d, i) ==
    IF i = 0 THEN 0
    ELSE NonMissingUpTo(d, i - 1) + (IF d[i].genotype = Missing THEN 0 ELSE 1)

\* the choices handed out to the rows that are not "--" only
pseudo_haploidize_genotypes_skipping_missing(d, random_choices) ==
    [i \in DOMAIN d |->
        RealignAlleles(NullToMissing(
            ChooseAllele(d[i],
                         IF d[i].genotype = Missing THEN 0
                         ELSE random_choices[NonMissingUpTo(d, i)])))]

pseudo_haploidize_genotypes(d, random_choices) ==
    [i \in DOMAIN d |->
        RealignAlleles(NullToMissing(ChooseAllele(d[i], random_choices[i])))]

(***************************************************************************)
(* calculate_stats_dict and display_stats                                  *)
(***************************************************************************)
IsMissingRow(row) == row.genotype = Missing

\* a count of the rows with a null ref in place of the genotype test
MissingLociByNullRef(d) == Len(SelectSeq(d, LAMBDA row : row.ref = Null))

\* df.filter(pl.col(genotype_col) == "--").height
MissingLoci(d) == Len(SelectSeq(d, IsMissingRow))

\* (missing_loci / total_loci) * 100
MissingnessLevel(missing_loci, total_loci) ==
    FMul(100, FDiv(missing_loci, total_loci))

calculate_stats_dict(d) ==
    IF Len(d) <= 0
    THEN [total_loci |-> 0, missing_loci |-> 0, missingness_level |-> FZero]
    ELSE [total_loci |-> Len(d), missing_loci |-> MissingLoci(d),
          missingness_level |-> MissingnessLevel(MissingLoci(d), Len(d))]

\* f"{level:.2f}"
Format2f(level) ==
    LET h == FHundredths(level)
    IN IntToStr(h \div 100)
       \o <<".", DigitChars[((h % 100) \div 10) + 1], DigitChars[(h % 10) + 1]>>

\* the lines display_stats prints, in order
display_stats(d, prefix) ==
    IF Len(d) > 0
    THEN (IF prefix # Empty THEN <<prefix>> ELSE <<>>)
         \o << <<"Total number of loci: ">> \o IntToStr(Len(d)),
               <<"Number of missing loci: ">> \o IntToStr(MissingLoci(d)),
               <<"Missingness level: ">>
                  \o Format2f(MissingnessLevel(MissingLoci(d), Len(d)))
                  \o <<"%">> >>
    ELSE << <<"No loci found in the file.">> >>

(***************************************************************************)
(* write_with_headers                                                      *)
(***************************************************************************)
None == <<"NONE">>            \* Python's None (no string holds this token)

\* a test against the empty string only: None counts as a note
TruthyNotEmpty(s) == s # Empty

\* the truth value of processing_info
Truthy(s) == s # None /\ s # Empty

\* sep.join(fields)
RECURSIVE Join(_, _)
Join(fields, sep) ==
    IF fields = <<>> THEN <<>>
    ELSE IF Len(fields) = 1 THEN fields[1]
    ELSE fields[1] \o sep \o Join(Tail(fields), sep)

\* data.select(columns_to_keep) and map(str, row)
SelectColumns(row) ==
    <<row.rsid, row.chromosome, IntToStr(row.position), row.genotype>>

DataLine(row) == Join(SelectColumns(row), <<"\t">>) \o <<"\n">>

InfoLine(processing_info) == <<"# ">> \o processing_info \o <<"\n">>

\* the processing info written after the last header line
HeaderLinesInfoLast(headers, processing_info) ==
    headers \o (IF headers # <<>> /\ Truthy(processing_info)
                THEN <<InfoLine(processing_info)>> ELSE <<>>)

\* the loop over enumerate(headers)
HeaderLines(headers, processing_info) ==
    IF headers = <<>> THEN <<>>
    ELSE SubSeq(headers, 1, Len(headers) - 1)
         \o (IF Truthy(processing_info)
             THEN <<InfoLine(processing_info)>> ELSE <<>>)
         \o <<headers[Len(headers)]>>

\* the lines of the file write_with_headers writes
write_with_headers(headers, data, processing_info) ==
    HeaderLines(headers, processing_info)
    \o [i \in DOMAIN data |-> DataLine(data[i])]

(***************************************************************************)
(* State                                                                   *)
(***************************************************************************)
VARIABLES
    orig,     \* the dataset produced by the allele decomposition
    df,       \* the dataset the caller holds now
    prev,     \* the dataset passed to the most recent call
    last,     \* the most recent call: its name, arguments and outcome
    before,   \* the name of the call made before the most recent one
    err,      \* the exception that ended the run, or "none"
    pc,       \* the statement of main that runs next
    args,     \* the parsed command line of main
    input,    \* the input file: whether it exists, and its lines
    fs,       \* the files main has created and not removed, with their lines
    locals    \* the local variables of main

mainVars == <<pc, args, input, fs, locals>>

vars == <<orig, df, prev, last, before, err, pc, args, input, fs, locals>>

NoCall == [call |-> "none", drawn |-> 0]

\* main is not running: the functions are called directly
NotRunning ==
    /\ pc = "none"
    /\ args = [percentage_to_remove |-> <<>>, pseudo_haploid |-> FALSE]
    /\ input = [exists |-> FALSE, lines |-> <<>>]
    /\ fs = <<>>
    /\ locals = <<>>

\* the datasets the decomposition produces from input files of n rows
InputRows(n) == {[i \in 1 .. n |-> InputRow(i, g[i])] : g \in [1 .. n -> Genotypes]}

Datasets == UNION {{Decompose(rows) : rows \in InputRows(n)} : n \in 0 .. MaxLoci}

\* the percentages of the exhaustive specifications: both ends, both sides
\* out of range, and values that select some but not all rows
Percentages == {-1, 0, 40, 50, 67, 100, 101}

Init ==
    /\ orig \in Datasets
    /\ df = orig
    /\ prev = orig
    /\ last = NoCall
    /\ before = "none"
    /\ err = "none"
    /\ NotRunning

(***************************************************************************)
(* The transformations, applied in any order                               *)
(***************************************************************************)
\* remove_random_loci(df, pct) with pct outside [0, 100]: raises ValueError
SampleRejected(pct) ==
    /\ err = "none"
    /\ InvalidPercentage(pct)
    /\ err' = "ValueError"
    /\ last' = [call |-> "remove_random_loci", pct |-> pct, raised |-> TRUE,
                drawn |-> 0]
    /\ prev' = df
    /\ before' = last.call
    /\ UNCHANGED <<orig, df, mainVars>>

\* remove_random_loci(df, pct) with pct in [0, 100]
Sample(pct, rows_to_modify) ==
    /\ err = "none"
    /\ ~InvalidPercentage(pct)
    /\ rows_to_modify \in RandomSample(Len(df), num_rows_to_modify(Len(df), pct))
    /\ df' = remove_random_loci(df, rows_to_modify)
    /\ prev' = df
    /\ last' = [call |-> "remove_random_loci", pct |-> pct, raised |-> FALSE,
                rows |-> rows_to_modify, drawn |-> Cardinality(rows_to_modify)]
    /\ before' = last.call
    /\ UNCHANGED <<orig, err, mainVars>>

\* pseudo_haploidize_genotypes(df)
Haploidize(random_choices) ==
    /\ err = "none"
    /\ df' = pseudo_haploidize_genotypes(df, random_choices)
    /\ prev' = df
    /\ last' = [call |-> "pseudo_haploidize_genotypes",
                choices |-> random_choices, drawn |-> Len(random_choices)]
    /\ before' = last.call
    /\ UNCHANGED <<orig, err, mainVars>>

Next ==
    \/ \E pct \in Percentages : SampleRejected(pct)
    \/ \E pct \in Percentages :
          \E rows \in SUBSET (0 .. Len(df) - 1) : Sample(pct, rows)
    \/ \E random_choices \in RandomChoices(Len(df)) : Haploidize(random_choices)

Spec == Init /\ [][Next]_vars

(***************************************************************************)
(* One remove_random_loci call on larger datasets, for every whole         *)
(* percentage: the datasets are a run of "AG" rows ending in up to two     *)
(* "--" rows (the shape of the fixtures of test.py), and random.sample     *)
(* returns one of three shapes of index set                                *)
(***************************************************************************)
BulkSizes == {5, MaxBulk \div 2, MaxBulk}

BulkRows(n, m) ==
    [i \in 1 .. n |-> InputRow(i, IF i > n - m THEN Missing ELSE <<"A", "G">>)]

BulkDatasets == {Decompose(BulkRows(n, m)) : n \in BulkSizes, m \in 0 .. 2}

BulkPercentages == 0 .. 100

\* the first k indices, the last k indices, and every other index from 0
SampleShapes(n, k) ==
    {s \in {0 .. k - 1, n - k .. n - 1, {2 * j : j \in 0 .. k - 1}} :
        s \in RandomSample(n, k)}

InitBulk ==
    /\ orig \in BulkDatasets
    /\ df = orig
    /\ prev = orig
    /\ last = NoCall
    /\ before = "none"
    /\ err = "none"
    /\ NotRunning

NextBulk ==
    /\ last = NoCall
    /\ \/ \E pct \in {-1, 101} : SampleRejected(pct)
       \/ \E pct \in BulkPercentages :
             \E rows \in SampleShapes(Len(df), num_rows_to_modify(Len(df), pct)) :
                Sample(pct, rows)

SpecBulk == InitBulk /\ [][NextBulk]_vars

(***************************************************************************)
(* Statistics and output of a decomposed dataset, called in any order      *)
(***************************************************************************)
\* the comment lines of the fixture of test.py
CommentLines ==
    {<<"# This is a header", "\n">>,
     <<"# rsid", "\t", "chromosome", "\t", "position", "\t", "genotype", "\n">>}

HeaderBlocks == UNION {[1 .. n -> CommentLines] : n \in 0 .. MaxHeaders}

ProcessingInfos == {None, Empty, <<"Test processing">>}

Prefixes == {Empty, <<"Downsampled stats:">>}

InitIO ==
    /\ orig \in Datasets \cup BulkDatasets
    /\ df = orig
    /\ prev = orig
    /\ last = NoCall
    /\ before = "none"
    /\ err = "none"
    /\ NotRunning

CalcStats ==
    /\ last' = [call |-> "calculate_stats_dict", drawn |-> 0,
                value |-> calculate_stats_dict(df)]
    /\ prev' = df
    /\ before' = last.call
    /\ UNCHANGED <<orig, df, err, mainVars>>

Display(prefix) ==
    /\ last' = [call |-> "display_stats", drawn |-> 0, prefix |-> prefix,
                printed |-> display_stats(df, prefix)]
    /\ prev' = df
    /\ before' = last.call
    /\ UNCHANGED <<orig, df, err, mainVars>>

Write(headers, processing_info) ==
    /\ last' = [call |-> "write_with_headers", drawn |-> 0,
                headers |-> headers, info |-> processing_info,
                content |-> write_with_headers(headers, df, processing_info)]
    /\ prev' = df
    /\ before' = last.call
    /\ UNCHANGED <<orig, df, err, mainVars>>

NextIO ==
    \/ CalcStats
    \/ \E prefix \in Prefixes : Display(prefix)
    \/ \E headers \in HeaderBlocks, info \in ProcessingInfos : Write(headers, info)

SpecIO == InitIO /\ [][NextIO]_vars

(***************************************************************************)
(* main: one run of the pipeline.  Files are named by their role; what     *)
(* main prints is not part of the state.                                   *)
(***************************************************************************)
\* the genotypes of the input files of a run
MainGenotypes == {<<"A", "G">>, <<"A", "-">>, <<"-", "G">>, <<"A">>, Missing}

MainHeaders ==
    {<<>>,
     << <<"# This is a header", "\n">>,
        <<"# rsid", "\t", "chromosome", "\t", "position", "\t", "genotype", "\n">> >>}

WellFormedLines ==
    UNION {{[i \in 1 .. n |-> DataLine(InputRow(i, g[i]))] :
               g \in [1 .. n -> MainGenotypes]} : n \in 1 .. MaxLoci}

\* a first data line whose position is not a number
MalformedLines ==
    {<<Join(<<(<<"rs", "1">>), (<<"1">>), (<<"x">>), (<<"A", "G">>)>>, <<"\t">>)
         \o <<"\n">>>> \o Tail(lines) : lines \in WellFormedLines}

InputFiles ==
    {[exists |-> FALSE, lines |-> <<>>]}
    \cup {[exists |-> TRUE, lines |-> h \o l] :
             h \in MainHeaders, l \in WellFormedLines \cup MalformedLines}

\* the optional percentage_to_remove is <<>> for None and <<p>> for p
MainArgs ==
    [percentage_to_remove : {<<>>} \cup {<<p>> : p \in Percentages},
     pseudo_haploid : BOOLEAN]

Given(option) == option # <<>>

\* repr of a float with a whole value, as an f-string writes it
FloatRepr(x) == IntToStr(x) \o <<".0">>

InitMain ==
    /\ input \in InputFiles
    /\ args \in MainArgs
    /\ pc = "extract_headers"
    /\ fs = <<>>
    /\ locals = [headers |-> <<>>, rows |-> <<>>, initial_stats |-> <<>>,
                 pseudo_haploid_df |-> <<>>]
    /\ orig = <<>>
    /\ df = <<>>
    /\ prev = <<>>
    /\ last = NoCall
    /\ before = "none"
    /\ err = "none"

\* fs with the file named role written anew
Written(role, content) == (role :> content) @@ fs

\* fs with the file named role removed
Removed(role) == [r \in (DOMAIN fs) \ {role} |-> fs[r]]

\* headers, column_names = extract_headers(args.input_file)
MainExtractHeaders ==
    /\ pc = "extract_headers"
    /\ IF input.exists
       THEN /\ locals' = [locals EXCEPT !.headers = extract_headers(input.lines)]
            /\ pc' = "write_temp"
            /\ err' = err
       ELSE /\ err' = "FileNotFoundError"
            /\ pc' = "done"
            /\ locals' = locals
    /\ UNCHANGED <<orig, df, prev, last, before, args, input, fs>>

\* the comment-stripped lines written to the temporary file
MainWriteTemp ==
    /\ pc = "write_temp"
    /\ fs' = Written("tmp", DataLinesOf(input.lines))
    /\ pc' = "read_csv"
    /\ UNCHANGED <<orig, df, prev, last, before, err, args, input, locals>>

\* df = pl.read_csv(temp_file, ...)
MainReadCsv ==
    /\ pc = "read_csv"
    /\ IF RaisesComputeError(fs["tmp"])
       THEN /\ err' = "ComputeError"
            /\ pc' = "done"
            /\ locals' = locals
       ELSE /\ locals' = [locals EXCEPT !.rows = ReadCsv(fs["tmp"])]
            /\ pc' = "remove_temp"
            /\ err' = err
    /\ UNCHANGED <<orig, df, prev, last, before, args, input, fs>>

\* os.remove(temp_file)
MainRemoveTemp ==
    /\ pc = "remove_temp"
    /\ fs' = Removed("tmp")
    /\ pc' = "decompose"
    /\ UNCHANGED <<orig, df, prev, last, before, err, args, input, locals>>

\* the allele decomposition, initial_stats and processed_df = df
MainDecompose ==
    /\ pc = "decompose"
    /\ orig' = Decompose(locals.rows)
    /\ df' = orig'
    /\ prev' = orig'
    /\ locals' = [locals EXCEPT !.initial_stats = calculate_stats_dict(orig')]
    /\ pc' = IF Given(args.percentage_to_remove) THEN "downsample"
             ELSE IF args.pseudo_haploid THEN "haploidize"
             ELSE "done"
    /\ UNCHANGED <<last, before, err, args, input, fs>>

\* the output file opened before the percentage is checked
MainDownsampleCheckedLate(rows_to_modify) ==
    /\ pc = "downsample"
    /\ LET pct == args.percentage_to_remove[1]
       IN IF InvalidPercentage(pct)
          THEN /\ rows_to_modify = {}
               /\ err' = "ValueError"
               /\ pc' = "crashed"
               /\ last' = [call |-> "remove_random_loci", pct |-> pct,
                           raised |-> TRUE, drawn |-> 0]
               /\ df' = df
               /\ fs' = Written("downsampled", <<>>)
          ELSE /\ rows_to_modify
                    \in RandomSample(Len(df), num_rows_to_modify(Len(df), pct))
               /\ df' = remove_random_loci(df, rows_to_modify)
               /\ last' = [call |-> "remove_random_loci", pct |-> pct,
                           raised |-> FALSE, rows |-> rows_to_modify,
                           drawn |-> Cardinality(rows_to_modify)]
               /\ pc' = "write_downsampled"
               /\ err' = err
               /\ fs' = fs
    /\ prev' = df
    /\ before' = last.call
    /\ UNCHANGED <<orig, args, input, locals>>

\* processed_df = remove_random_loci(processed_df, args.percentage_to_remove)
MainDownsample(rows_to_modify) ==
    /\ pc = "downsample"
    /\ LET pct == args.percentage_to_remove[1]
       IN IF InvalidPercentage(pct)
          THEN /\ rows_to_modify = {}
               /\ err' = "ValueError"
               /\ pc' = "crashed"
               /\ last' = [call |-> "remove_random_loci", pct |-> pct,
                           raised |-> TRUE, drawn |-> 0]
               /\ df' = df
          ELSE /\ rows_to_modify
                    \in RandomSample(Len(df), num_rows_to_modify(Len(df), pct))
               /\ df' = remove_random_loci(df, rows_to_modify)
               /\ last' = [call |-> "remove_random_loci", pct |-> pct,
                           raised |-> FALSE, rows |-> rows_to_modify,
                           drawn |-> Cardinality(rows_to_modify)]
               /\ pc' = "write_downsampled"
               /\ err' = err
    /\ prev' = df
    /\ before' = last.call
    /\ UNCHANGED <<orig, args, input, fs, locals>>

DownsampledInfo ==
    <<"This file has been downsampled to introduce ">>
    \o FloatRepr(args.percentage_to_remove[1]) \o <<"% missingness">>

\* write_with_headers(headers, output_file, processed_df, processing_info)
MainWriteDownsampled ==
    /\ pc = "write_downsampled"
    /\ fs' = Written("downsampled",
                     write_with_headers(locals.headers, df, DownsampledInfo))
    /\ pc' = "log_downsampled"
    /\ UNCHANGED <<orig, df, prev, last, before, err, args, input, locals>>

\* the lines write_log_file writes (the command line is not modelled)
write_log_file(description, initial_stats, processed_stats) ==
    << <<"# Log generated on ", "<now>", "\n">>,
       <<"## Operation details", "\n">>,
       description \o <<"\n">>,
       <<"## Original file statistics", "\n">>,
       <<"Total number of loci: ">> \o IntToStr(initial_stats.total_loci)
          \o <<"\n">>,
       <<"Number of missing loci: ">> \o IntToStr(initial_stats.missing_loci)
          \o <<"\n">>,
       <<"Missingness level: ">> \o Format2f(initial_stats.missingness_level)
          \o <<"%", "\n">>,
       <<"## Processed file statistics", "\n">>,
       <<"Total number of loci: ">> \o IntToStr(processed_stats.total_loci)
          \o <<"\n">>,
       <<"Number of missing loci: ">> \o IntToStr(processed_stats.missing_loci)
          \o <<"\n">>,
       <<"Missingness level: ">> \o Format2f(processed_stats.missingness_level)
          \o <<"%", "\n">> >>

\* downsampled_stats = calculate_stats_dict(processed_df); write_log_file
MainLogDownsampled ==
    /\ pc = "log_downsampled"
    /\ fs' = Written("downsampled_log",
                     write_log_file(<<"Downsampled to introduce ">>
                                 \o FloatRepr(args.percentage_to_remove[1])
                                 \o <<"% missingness">>,
                              locals.initial_stats, calculate_stats_dict(df)))
    /\ pc' = IF args.pseudo_haploid THEN "haploidize" ELSE "done"
    /\ UNCHANGED <<orig, df, prev, last, before, err, args, input, locals>>

\* pseudo-haploidization of the decomposed dataset df instead of processed_df
MainHaploidizeOriginal(random_choices) ==
    /\ pc = "haploidize"
    /\ locals' = [locals EXCEPT
                     !.pseudo_haploid_df = pseudo_haploidize_genotypes(orig, random_choices)]
    /\ last' = [call |-> "pseudo_haploidize_genotypes",
                choices |-> random_choices, drawn |-> Len(random_choices)]
    /\ prev' = orig
    /\ before' = last.call
    /\ pc' = "write_pseudohaploid"
    /\ UNCHANGED <<orig, df, err, args, input, fs>>

\* pseudo_haploid_df = pseudo_haploidize_genotypes(processed_df)
MainHaploidize(random_choices) ==
    /\ pc = "haploidize"
    /\ locals' = [locals EXCEPT
                     !.pseudo_haploid_df = pseudo_haploidize_genotypes(df, random_choices)]
    /\ last' = [call |-> "pseudo_haploidize_genotypes",
                choices |-> random_choices, drawn |-> Len(random_choices)]
    /\ prev' = df
    /\ before' = last.call
    /\ pc' = "write_pseudohaploid"
    /\ UNCHANGED <<orig, df, err, args, input, fs>>

PseudoHaploidInfo ==
    <<"This file has been pseudo-haploidized">>
    \o (IF Given(args.percentage_to_remove)
        THEN <<" after downsampling to introduce ">>
             \o FloatRepr(args.percentage_to_remove[1]) \o <<"% missingness">>
        ELSE <<>>)

\* write_with_headers(headers, pseudo_output_file, pseudo_haploid_df, ...)
MainWritePseudoHaploid ==
    /\ pc = "write_pseudohaploid"
    /\ fs' = Written("pseudohaploid",
                     write_with_headers(locals.headers, locals.pseudo_haploid_df,
                                      PseudoHaploidInfo))
    /\ pc' = "log_pseudohaploid"
    /\ UNCHANGED <<orig, df, prev, last, before, err, args, input, locals>>

\* pseudo_haploid_stats = calculate_stats_dict(pseudo_haploid_df); write_log_file
MainLogPseudoHaploid ==
    /\ pc = "log_pseudohaploid"
    /\ fs' = Written("pseudohaploid_log",
                     write_log_file(IF Given(args.percentage_to_remove)
                              THEN <<"Pseudo-haploidized after downsampling to introduce ">>
                                   \o FloatRepr(args.percentage_to_remove[1])
                                   \o <<"% missingness">>
                              ELSE <<"Pseudo-haploidized">>,
                              locals.initial_stats,
                              calculate_stats_dict(locals.pseudo_haploid_df)))
    /\ pc' = "done"
    /\ UNCHANGED <<orig, df, prev, last, before, err, args, input, locals>>

NextMain ==
    \/ MainExtractHeaders
    \/ MainWriteTemp
    \/ MainReadCsv
    \/ MainRemoveTemp
    \/ MainDecompose
    \/ \E rows \in SUBSET (0 .. Len(df) - 1) : MainDownsample(rows)
    \/ MainWriteDownsampled
    \/ MainLogDownsampled
    \/ \E random_choices \in RandomChoices(Len(df)) : MainHaploidize(random_choices)
    \/ MainWritePseudoHaploid
    \/ MainLogPseudoHaploid

SpecMain == InitMain /\ [][NextMain]_vars

(***************************************************************************)
(* The format round trip: a well-formed file is read as main reads it,     *)
(* written back by write_with_headers without processing info, and the     *)
(* file written is read again the same way                                 *)
(***************************************************************************)
\* a data line of an input file, as text
RawLine(row) ==
    row.rsid \o <<"\t">> \o row.chromosome \o <<"\t">>
    \o IntToStr(row.position) \o <<"\t">> \o row.genotype \o <<"\n">>

\* leading comment lines followed by rows of four tab-separated fields
RoundTripFiles ==
    {[exists |-> TRUE, lines |-> h \o [i \in DOMAIN rows |-> RawLine(rows[i])]] :
        h \in HeaderBlocks, rows \in UNION {InputRows(n) : n \in 1 .. MaxLoci}}

InitRoundTrip ==
    /\ input \in RoundTripFiles
    /\ args = [percentage_to_remove |-> <<>>, pseudo_haploid |-> FALSE]
    /\ pc = "extract_headers"
    /\ fs = <<>>
    /\ locals = [headers |-> <<>>, rows |-> <<>>, initial_stats |-> <<>>,
                 pseudo_haploid_df |-> <<>>]
    /\ orig = <<>>
    /\ df = <<>>
    /\ prev = <<>>
    /\ last = NoCall
    /\ before = "none"
    /\ err = "none"

\* write_with_headers(headers, output_file, df) on what the first reading
\* gave: processing_info keeps its default None
WriteBack ==
    /\ pc = "done"
    /\ err = "none"
    /\ last = NoCall
    /\ fs' = Written("copy", write_with_headers(locals.headers, df, None))
    /\ last' = [call |-> "write_with_headers", drawn |-> 0,
                headers |-> locals.headers, info |-> None, data |-> df,
                source |-> input.lines]
    /\ prev' = df
    /\ before' = last.call
    /\ pc' = "written"
    /\ UNCHANGED <<orig, df, err, args, input, locals>>

\* the file written becomes the input file of a second reading, which
\* starts from nothing
ReadBack ==
    /\ pc = "written"
    /\ input' = [exists |-> TRUE, lines |-> fs["copy"]]
    /\ fs' = Removed("copy")
    /\ locals' = [headers |-> <<>>, rows |-> <<>>, initial_stats |-> <<>>,
                  pseudo_haploid_df |-> <<>>]
    /\ orig' = <<>>
    /\ df' = <<>>
    /\ prev' = <<>>
    /\ before' = last.call
    /\ pc' = "extract_headers"
    /\ UNCHANGED <<last, err, args>>

NextRoundTrip ==
    \/ MainExtractHeaders
    \/ MainWriteTemp
    \/ MainReadCsv
    \/ MainRemoveTemp
    \/ MainDecompose
    \/ WriteBack
    \/ ReadBack

SpecRoundTrip == InitRoundTrip /\ [][NextRoundTrip]_vars

(***************************************************************************)
(* Properties of the transformations (Spec)                                *)
(***************************************************************************)
IsSample == last.call = "remove_random_loci" /\ ~last.raised
IsHaploidize == last.call = "pseudo_haploidize_genotypes"

\* C1: whatever sample and haploidize calls were applied, with whatever
\* draws, the dataset has as many rows as the decomposed dataset and row i
\* still carries the rsid, chromosome and position of row i.
C1_RowsPreserved ==
    /\ Len(df) = Len(orig)
    /\ \A i \in DOMAIN orig :
          /\ df[i].rsid = orig[i].rsid
          /\ df[i].chromosome = orig[i].chromosome
          /\ df[i].position = orig[i].position

C1_Witness ==
    /\ Len(df) >= 2
    /\ before = "remove_random_loci" /\ IsHaploidize
    /\ last.choices[1] # last.choices[2]
    /\ \E i \in DOMAIN df : df[i].genotype # orig[i].genotype
    /\ \E i \in DOMAIN df : df[i].genotype = Missing /\ orig[i].genotype # Missing

\* the number of loci of d whose genotype is "--"
RECURSIVE CountMissing(_)
CountMissing(d) ==
    IF d = <<>> THEN 0
    ELSE CountMissing(Tail(d)) + (IF Head(d).genotype = Missing THEN 1 ELSE 0)

\* C2: after sample(d, p) on N loci the number of "--" loci is at least the
\* number in d and equals missing(d) + floor(N*p/100) minus the number of
\* selected indices that were already missing in d.
C2_MissingCount ==
    IsSample =>
        LET k == (Len(prev) * last.pct) \div 100
            overlap == Cardinality({r \in last.rows :
                                       prev[r + 1].genotype = Missing})
        IN /\ CountMissing(df) >= CountMissing(prev)
           /\ CountMissing(df) = CountMissing(prev) + k - overlap

\* C3: sample(d, 0) equals d in every field of every locus; sample(d, 100)
\* has every locus at genotype "--" with ref and alt absent.
C3_SampleEnds ==
    IsSample =>
        /\ last.pct = 0 => df = prev
        /\ last.pct = 100 =>
              /\ Len(df) = Len(prev)
              /\ \A i \in DOMAIN df :
                    /\ df[i].genotype = Missing
                    /\ df[i].ref = Null
                    /\ df[i].alt = Null

C3_Witness ==
    /\ IsSample
    /\ last.pct = 100
    /\ Len(prev) >= 2
    /\ \A i \in DOMAIN prev : prev[i].genotype # Missing /\ prev[i].alt # Null
    /\ \A i \in DOMAIN df : df[i].genotype = Missing

\* C5: once main has decomposed the rows it read, "--" has given (absent,
\* absent); otherwise ref is the first character unless it is "-" (then
\* absent) and alt is the second character unless there is none or it is
\* "-" (then absent).
C5_Decomposition ==
    (locals.rows # <<>> /\ pc \notin {"remove_temp", "decompose"})
    => /\ Len(orig) = Len(locals.rows)
       /\ \A i \in DOMAIN locals.rows :
              LET g == locals.rows[i].genotype
              IN /\ orig[i].genotype = g
                 /\ IF g = Missing
                    THEN orig[i].ref = Null /\ orig[i].alt = Null
                    ELSE /\ orig[i].ref = IF g[1] = "-" THEN Null ELSE <<g[1]>>
                         /\ orig[i].alt = IF Len(g) < 2 \/ g[2] = "-" THEN Null
                                          ELSE <<g[2]>>

C5_Witness ==
    /\ pc = "done" /\ err = "none"
    /\ Len(locals.rows) = 2
    /\ locals.rows[1].genotype = <<"-", "G">> /\ orig[1].ref = Null
    /\ orig[1].alt = <<"G">>
    /\ locals.rows[2].genotype = <<"A">> /\ orig[2].ref = <<"A">>
    /\ orig[2].alt = Null

\* C6: a locus that is not "--" and has both alleles gets ref doubled when
\* the draw at its own position is 0 and alt doubled when it is 1; a
\* homozygous locus therefore keeps its genotype.
C6_ChosenAlleleDoubled ==
    IsHaploidize =>
        \A i \in DOMAIN prev :
            (prev[i].genotype # Missing /\ prev[i].ref # Null /\ prev[i].alt # Null)
            => /\ last.choices[i] = 0 => df[i].genotype = prev[i].ref \o prev[i].ref
               /\ last.choices[i] = 1 => df[i].genotype = prev[i].alt \o prev[i].alt
               /\ prev[i].ref = prev[i].alt => df[i].genotype = prev[i].genotype

C6_Witness ==
    /\ IsHaploidize
    /\ Len(prev) = 2
    /\ prev[1].genotype = <<"A", "G">> /\ last.choices[1] = 1
    /\ df[1].genotype = <<"G", "G">>
    /\ prev[2].genotype = <<"A", "G">> /\ last.choices[2] = 0
    /\ df[2].genotype = <<"A", "A">>

\* C7: missingness is permanent: a locus at "--" is at "--" with ref and alt
\* absent after every further sample or haploidize call, whatever the draws.
C7_MissingStaysMissing ==
    [][\A i \in DOMAIN df :
          df[i].genotype = Missing =>
             /\ i \in DOMAIN df'
             /\ df'[i].genotype = Missing
             /\ df'[i].ref = Null
             /\ df'[i].alt = Null]_vars

C7_Witness ==
    /\ IsHaploidize
    /\ before = "remove_random_loci" /\ IsHaploidize
    /\ Len(df) = 2
    /\ orig[1].genotype # Missing /\ orig[2].genotype = Missing
    /\ prev[1].genotype = Missing
    /\ last.choices = <<1, 0>>
    /\ df[1].genotype = Missing /\ df[2].genotype = Missing

\* C8: haploidize applied to the result of haploidize changes nothing, for
\* every two sequences of coin draws.
C8_HaploidizeIdempotent ==
    (IsHaploidize /\ before = "pseudo_haploidize_genotypes") => df = prev

C8_Witness ==
    /\ IsHaploidize /\ before = "pseudo_haploidize_genotypes"
    /\ Len(df) = 2
    /\ orig[1].genotype = <<"A", "G">> /\ prev[1].genotype = <<"A", "A">>
    /\ orig[2].genotype = <<"G", "A">> /\ prev[2].genotype = <<"A", "A">>
    /\ last.choices = <<1, 0>>
    /\ df = prev

(***************************************************************************)
(* Properties of the statistics and of the writer (SpecIO)                 *)
(***************************************************************************)
Abs(x) == IF x < 0 THEN 0 - x ELSE x

\* h hundredths of a percent is 100 * missing / total to two decimals
IsPercentage(h, missing, total) ==
    2 * Abs(h * total - 10000 * missing) <= total

\* the text of h hundredths with two decimals
TwoDecimals(h) ==
    IntToStr(h \div 100) \o <<".">> \o
    (IF h % 100 < 10 THEN <<"0">> ELSE <<>>) \o IntToStr(h % 100)

\* C9: stats reports total = number of loci, missing = number of loci whose
\* genotype is exactly "--" and, to the two decimals that are printed,
\* missingness_pct = 100 * missing / total (0 when total = 0); so
\* 0 <= missing <= total and 0 <= pct <= 100, and the dataset is unchanged.
C9_Stats ==
    /\ last.call = "calculate_stats_dict" =>
          LET s == last.value
              h == FHundredths(s.missingness_level)
          IN /\ s.total_loci = Len(df)
             /\ s.missing_loci = CountMissing(df)
             /\ 0 <= s.missing_loci /\ s.missing_loci <= s.total_loci
             /\ 0 <= h /\ h <= 10000
             /\ IF s.total_loci > 0
                THEN IsPercentage(h, s.missing_loci, s.total_loci)
                ELSE s.missingness_level.zero
             /\ df = prev /\ df = orig
    /\ (last.call = "display_stats" /\ Len(df) > 0) =>
          LET p == last.printed
              n == Len(p)
          IN /\ n >= 3
             /\ p[n - 2] = <<"Total number of loci: ">> \o IntToStr(Len(df))
             /\ p[n - 1] = <<"Number of missing loci: ">>
                              \o IntToStr(CountMissing(df))
             /\ \E h \in 0 .. 10000 :
                   /\ IsPercentage(h, CountMissing(df), Len(df))
                   /\ p[n] = <<"Missingness level: ">> \o TwoDecimals(h)
                                \o <<"%">>
             /\ df = prev /\ df = orig

C9_Witness ==
    /\ last.call = "display_stats"
    /\ before = "calculate_stats_dict"
    /\ Len(df) = 5
    /\ CountMissing(df) = 2
    /\ last.printed =
          << <<"Total number of loci: ", "5">>,
             <<"Number of missing loci: ", "2">>,
             <<"Missingness level: ", "4", "0", ".", "0", "0", "%">> >>

\* C10: with n >= 1 header lines and a processing note, write emits header
\* lines 1..n-1, the line "# <note>", header line n, then one line per locus
\* in dataset order with exactly the four tab-separated fields rsid,
\* chromosome, position, genotype (so never ref or alt).
C10_WriteLayout ==
    (/\ last.call = "write_with_headers"
     /\ Len(last.headers) >= 1
     /\ last.info # None /\ last.info # Empty)
    => LET n == Len(last.headers)
           c == last.content
       IN /\ Len(c) = n + 1 + Len(df)
          /\ \A i \in 1 .. n - 1 : c[i] = last.headers[i]
          /\ c[n] = <<"# ">> \o last.info \o <<"\n">>
          /\ c[n + 1] = last.headers[n]
          /\ \A i \in DOMAIN df :
                LET line == c[n + 1 + i]
                    f == SplitTabs(SubSeq(line, 1, Len(line) - 1))
                IN /\ line[Len(line)] = "\n"
                   /\ Len(f) = 4
                   /\ f[1] = df[i].rsid
                   /\ f[2] = df[i].chromosome
                   /\ StrToInt(f[3]) = df[i].position
                   /\ f[4] = df[i].genotype

C10_Witness ==
    /\ last.call = "write_with_headers"
    /\ Len(last.headers) = 2
    /\ last.headers[1] # last.headers[2]
    /\ last.info = <<"Test processing">>
    /\ Len(df) = 2
    /\ df[1].ref # Null /\ df[1].alt # Null /\ df[2].genotype = Missing
    /\ Len(last.content) = 5
    /\ last.content[2] = <<"# ", "Test processing", "\n">>
    /\ last.content[4] = <<"rs", "1", "\t", "1", "\t", "5", "0", "0", "\t",
                           "A", "G", "\n">>

(***************************************************************************)
(* Properties of main (SpecMain)                                           *)
(***************************************************************************)
\* C4: sample called with a percentage below 0 or above 100 fails with the
\* invalid-parameter error before any random index is drawn and before any
\* locus is changed: the dataset is unchanged, none is returned, and main
\* has written no output file and no log file when the error is raised.
C4_InvalidPercentageRejected ==
    (last.call = "remove_random_loci" /\ (last.pct < 0 \/ last.pct > 100))
    => /\ last.raised
       /\ err = "ValueError"
       /\ pc = "crashed"
       /\ last.drawn = 0
       /\ df = prev /\ df = orig
       /\ locals.pseudo_haploid_df = <<>>
       /\ DOMAIN fs = {}

C4_Witness ==
    /\ err = "ValueError"
    /\ last.call = "remove_random_loci" /\ last.raised
    /\ last.pct = 101
    /\ args.pseudo_haploid
    /\ Len(df) = 2 /\ df[1].genotype = <<"A", "G">>
    /\ locals.headers # <<>>
    /\ DOMAIN fs = {}

(***************************************************************************)
(* Properties of the format round trip (SpecRoundTrip)                     *)
(***************************************************************************)
\* the number of lines of a file that start with "#"
CommentCount(lines) ==
    Cardinality({i \in DOMAIN lines : StartsWithHash(lines[i])})

\* the first reading has been written back but not yet read again
WrittenBack == pc = "written"

\* the second reading, of the file written back, is complete
ReadAgain == pc = "done" /\ last.call = "write_with_headers"

\* C11: a well-formed file that is read, decomposed and written with no
\* processing note gives the header lines byte for byte in their order, no
\* annotation line, and the data rows with the same four values in the same
\* order; reading that output again gives the same header block and the same
\* dataset.
C11_RoundTrip ==
    /\ WrittenBack =>
          LET out == fs["copy"]
              n == CommentCount(input.lines)
          IN /\ Len(out) = Len(input.lines)
             /\ CommentCount(out) = n
             /\ \A i \in 1 .. n : out[i] = input.lines[i]
             /\ \A i \in n + 1 .. Len(input.lines) :
                   LET f == FieldsOf(out[i])
                       g == FieldsOf(input.lines[i])
                   IN /\ Len(f) = 4
                      /\ out[i][Len(out[i])] = "\n"
                      /\ f[1] = g[1] /\ f[2] = g[2] /\ f[4] = g[4]
                      /\ StrToInt(f[3]) = StrToInt(g[3])
    /\ ReadAgain =>
          /\ locals.headers = last.headers
          /\ orig = last.data
          /\ Len(orig) = Len(last.source) - Len(last.headers)

C11_Witness ==
    /\ ReadAgain
    /\ Len(locals.headers) = 2
    /\ locals.headers[1] # locals.headers[2]
    /\ Len(orig) = 2
    /\ orig[1].genotype = <<"A", "G">> /\ orig[1].alt = <<"G">>
    /\ orig[2].genotype = <<"-", "G">> /\ orig[2].ref = Null
    /\ orig[2].position = 1000
    /\ input.lines = last.source

(***************************************************************************)
(* Properties of a run of main: failures, stage order, the temporary file  *)
(* (SpecMain)                                                              *)
(***************************************************************************)
\* the data output files and log files of a run
OutputFiles ==
    {"downsampled", "downsampled_log", "pseudohaploid", "pseudohaploid_log"}

\* the run has ended in an exception, handled by main or not
Failed == err \in {"FileNotFoundError", "ComputeError", "ValueError"}

\* C12: a run that fails (file not found, malformed input, invalid
\* percentage) fails before the first call that writes an output file: at
\* the failure no data output file and no log file exists, and neither
\* transformation result has been produced.
C12_FailuresBeforeWrites ==
    Failed =>
        /\ DOMAIN fs \cap OutputFiles = {}
        /\ pc \in {"done", "crashed"}
        /\ locals.pseudo_haploid_df = <<>>
        /\ last.call \in {"none", "remove_random_loci"}
        /\ last.call = "remove_random_loci" => last.raised

C12_Witness ==
    /\ err = "ComputeError"
    /\ pc = "done"
    /\ args.percentage_to_remove = <<50>>
    /\ args.pseudo_haploid
    /\ Len(input.lines) = 4
    /\ locals.headers # <<>>
    /\ DOMAIN fs \cap OutputFiles = {}

\* the data lines of an output file: what follows its comment lines
DataLinesWritten(role) == DataLinesOf(fs[role])

\* C13: main runs parse, decompose, optional sample, optional haploidize,
\* write in that order: with both requested, sample runs first and
\* haploidize is applied to the dataset sample returned, so the
\* pseudo-haploid output is haploidize(sample(d, p)); with one requested the
\* other is not applied.
C13_StageOrder ==
    /\ (err = "none" /\ last.call = "remove_random_loci") =>
          /\ Given(args.percentage_to_remove)
          /\ before = "none"
          /\ prev = orig
          /\ df = remove_random_loci(orig, last.rows)
          /\ locals.pseudo_haploid_df = <<>>
    /\ (err = "none" /\ last.call = "pseudo_haploidize_genotypes") =>
          /\ args.pseudo_haploid
          /\ prev = df
          /\ locals.pseudo_haploid_df
                = pseudo_haploidize_genotypes(df, last.choices)
          /\ IF Given(args.percentage_to_remove)
             THEN /\ before = "remove_random_loci"
                  /\ \E rows \in SUBSET (0 .. Len(orig) - 1) :
                        /\ Cardinality(rows)
                              = num_rows_to_modify(Len(orig),
                                                   args.percentage_to_remove[1])
                        /\ df = remove_random_loci(orig, rows)
                  /\ DataLinesWritten("downsampled")
                        = [i \in DOMAIN df |-> DataLine(df[i])]
             ELSE before = "none" /\ df = orig
    /\ (pc = "done" /\ err = "none") =>
          /\ Len(orig) = Len(locals.rows)
          /\ "downsampled" \in DOMAIN fs <=> Given(args.percentage_to_remove)
          /\ "pseudohaploid" \in DOMAIN fs <=> args.pseudo_haploid
          /\ ~Given(args.percentage_to_remove) =>
                /\ df = orig
                /\ before = "none"
                /\ last.call # "remove_random_loci"
          /\ ~args.pseudo_haploid =>
                /\ last.call # "pseudo_haploidize_genotypes"
                /\ locals.pseudo_haploid_df = <<>>
          /\ args.pseudo_haploid =>
                DataLinesWritten("pseudohaploid")
                   = [i \in DOMAIN df |->
                         DataLine(pseudo_haploidize_genotypes(df, last.choices)[i])]

C13_Witness ==
    /\ pc = "done" /\ err = "none"
    /\ args.percentage_to_remove = <<50>>
    /\ args.pseudo_haploid
    /\ Len(orig) = 2
    /\ orig[1].genotype = <<"A", "G">> /\ orig[2].genotype = <<"A", "G">>
    /\ df[1].genotype = Missing /\ df[2].genotype = <<"A", "G">>
    /\ last.call = "pseudo_haploidize_genotypes" /\ last.choices = <<0, 1>>
    /\ locals.pseudo_haploid_df[1].genotype = Missing
    /\ locals.pseudo_haploid_df[2].genotype = <<"G", "G">>
    /\ {"downsampled", "pseudohaploid"} \subseteq DOMAIN fs

(***************************************************************************)
(* Further properties of the transformations (Spec, SpecBulk)              *)
(***************************************************************************)
\* C14: sample selects k = floor(N*percentage/100) distinct indices of
\* [0, N); every selected locus ends at "--" with ref and alt absent, every
\* other locus keeps its genotype, ref and alt, and the dataset passed in
\* is left as it was.
C14_SampleFrame ==
    IsSample =>
        /\ Cardinality(last.rows) = (Len(prev) * last.pct) \div 100
        /\ last.rows \subseteq 0 .. Len(prev) - 1
        /\ Len(df) = Len(prev)
        /\ \A i \in DOMAIN prev :
              IF (i - 1) \in last.rows
              THEN /\ df[i].genotype = Missing
                   /\ df[i].ref = Null
                   /\ df[i].alt = Null
              ELSE /\ df[i].genotype = prev[i].genotype
                   /\ df[i].ref = prev[i].ref
                   /\ df[i].alt = prev[i].alt
        /\ before = "none" => prev = orig

\* the allele the draw chooses: ref for 0, alt for 1
Chosen(row, choice) == IF choice = 0 THEN row.ref ELSE row.alt

\* C15: a locus that is not "--" and has exactly one allele absent becomes
\* "--" when the coin chooses the absent allele and the present allele
\* doubled when the coin chooses the present one ("A-" with ref chosen
\* becomes "AA").
C15_OneAlleleAbsent ==
    IsHaploidize =>
        \A i \in DOMAIN prev :
            (/\ prev[i].genotype # Missing
             /\ (prev[i].ref = Null) # (prev[i].alt = Null))
            => LET chosen == Chosen(prev[i], last.choices[i])
               IN IF chosen = Null
                  THEN df[i].genotype = Missing
                  ELSE df[i].genotype = chosen \o chosen

\* ref and alt as the decomposition rules give them for genotype g
RuleRef(g) == IF g = Missing \/ g = <<>> \/ g[1] = "-" THEN Null ELSE <<g[1]>>

RuleAlt(g) == IF g = Missing \/ Len(g) < 2 \/ g[2] = "-" THEN Null ELSE <<g[2]>>

\* C16: after any sequence of sample and haploidize calls, ref and alt of
\* every locus are what the decomposition rules give for its current
\* genotype (each absent, or one character other than "-").
C16_AllelesMatchGenotype ==
    \A i \in DOMAIN df :
        /\ df[i].ref = RuleRef(df[i].genotype)
        /\ df[i].alt = RuleAlt(df[i].genotype)
        /\ df[i].ref = Null \/ (Len(df[i].ref) = 1 /\ df[i].ref # Dash)
        /\ df[i].alt = Null \/ (Len(df[i].alt) = 1 /\ df[i].alt # Dash)

C16_Witness ==
    /\ IsHaploidize /\ before = "remove_random_loci"
    /\ Len(df) = 2
    /\ orig[1].genotype = <<"A", "G">> /\ orig[2].genotype = <<"G", "A">>
    /\ prev[1].genotype = <<"A", "G">> /\ prev[2].genotype = Missing
    /\ last.choices = <<1, 1>>
    /\ df[1].genotype = <<"G", "G">> /\ df[1].ref = <<"G">> /\ df[1].alt = <<"G">>
    /\ df[2].genotype = Missing /\ df[2].ref = Null /\ df[2].alt = Null

\* C17 as stated: haploidize draws one coin flip for each locus that is not
\* "--" and none for a "--" locus, so it consumes as many draws as there are
\* non-missing loci, and a locus uses the draw of its rank among the
\* non-missing loci.
C17_DrawsOnlyForNonMissing ==
    IsHaploidize =>
        /\ last.drawn = Len(prev) - CountMissing(prev)
        /\ \A i \in DOMAIN prev :
              (prev[i].genotype # Missing /\ prev[i].ref # Null /\ prev[i].alt # Null)
              => LET chosen == Chosen(prev[i], last.choices[NonMissingUpTo(prev, i)])
                 IN df[i].genotype = chosen \o chosen

\* C17 amended: haploidize draws one coin flip for every locus, "--" or not,
\* in locus order: it consumes as many draws as the dataset has loci, and
\* locus i uses draw i whatever loci precede it.
C17_OneDrawPerLocus ==
    IsHaploidize =>
        /\ last.drawn = Len(prev)
        /\ Len(last.choices) = Len(prev)
        /\ \A i \in DOMAIN prev :
              (prev[i].genotype # Missing /\ prev[i].ref # Null /\ prev[i].alt # Null)
              => LET chosen == Chosen(prev[i], last.choices[i])
                 IN df[i].genotype = chosen \o chosen

C17_Witness ==
    /\ IsHaploidize
    /\ Len(prev) = 2
    /\ prev[1].genotype = Missing
    /\ prev[2].genotype = <<"A", "G">>
    /\ last.choices = <<0, 1>>
    /\ last.drawn = 2
    /\ df[2].genotype = <<"G", "G">>

(***************************************************************************)
(* Further properties of the writer (SpecIO) and of main (SpecMain)        *)
(***************************************************************************)
\* C18: for every header block, one of zero lines included, write with a
\* processing note gives an output with exactly one annotation line
\* "# <note>", before the data rows, and one more comment line than the
\* header block has.
C18_AnnotationAlways ==
    (last.call = "write_with_headers" /\ last.info \notin {None, Empty})
    => LET c == last.content
           n == Len(last.headers)
           note == <<"# ">> \o last.info \o <<"\n">>
       IN /\ Cardinality({i \in DOMAIN c : c[i] = note}) = 1
          /\ \A i \in DOMAIN c : c[i] = note => i <= n + 1
          /\ CommentCount(c) = n + 1
          /\ Len(c) = n + 1 + Len(df)

\* C19: the temporary file "<input>.tmp" is gone whenever main has
\* returned, after a complete run and after a handled error alike.
C19_TempFileRemoved ==
    pc \in {"done", "crashed"} => "tmp" \notin DOMAIN fs

====
